---- MODULE Spec2Model ----
(***************************************************************************)
(* Model of demo.ipynb: the kinetic Monte Carlo sampler of the             *)
(* Fredrickson-Andersen model (sample_FA_trajectory), the trajectory       *)
(* log-likelihood of DynamicsLearner (log_likelihood_trajectory_batched)   *)
(* and its batched training loop (train_batched).                          *)
(*                                                                         *)
(* Numbers.  The density is c = c / CDen, times are whole ticks of 1/Res   *)
(* time units, and a site rate is kept as the integer rate * CDen.  A      *)
(* log-likelihood  sum(ln W) - sum(dt * R)  is kept exactly as the record  *)
(* [num, den, lin] that stands for  ln(num / den) - lin / (CDen * Res):    *)
(* adding ln W multiplies num by W * CDen and den by CDen, subtracting     *)
(* dt * R adds ticks * (R * CDen) to lin.  ln 0 = -inf is num = 0.         *)
(* Python's 0-based index k is the TLA+ index k + 1 in every sequence.     *)
(***************************************************************************)
EXTENDS Integers, Sequences, FiniteSets, Bags, TLC

\* ------------------------------------------------------------- bounds
\* T ranges over 1..MaxT ticks.
MaxT == 4
\* L ranges over 1..MaxL sites.
MaxL == 3
\* c ranges over 1/CDen .. (CDen-1)/CDen.
CDen == 4
\* Ticks per unit of time.
Res == 2
\* The sampler is called with arguments for which its storage has at most
\* MaxRows rows.
MaxRows == 4
\* A trajectory handed to DynamicsLearner has 1..MaxN entries ...
MaxN == 4
\* ... of configurations of 1..MaxEL sites.
MaxEL == 2
\* A trained trajectory has 1..MaxTrainN entries.
MaxTrainN == 6
\* batch_size ranges over 1..MaxBatch.
MaxBatch == 3
\* batch_per_update ranges over 1..MaxPerUpdate when update_batch is True.
MaxPerUpdate == 2
\* n_iter ranges over 1..MaxIter.
MaxIter == 2

VARIABLES
  \* sample_FA_trajectory
  pc, T, L, c, t, log_likelihood, configs, times, i, config,
  transition_rates, R, dt,
  \* DynamicsLearner: the trajectory it holds, the last call of
  \* log_likelihood_trajectory_batched and what it returned, the value of
  \* that return under the exact rates, and a run of calls over consecutive
  \* windows: where the next window starts, the sum of the returns so far,
  \* and the return for the whole trajectory.
  self_configs, self_times, call, ret, value, cursor, acc, whole,
  \* train_batched: its arguments, steps, the loop variables i (epoch) and
  \* j, running_loss and losses (a loss is kept as the terms of the
  \* log-likelihood it negates), the gradient accumulated in the parameters'
  \* .grad (the batches back-propagated since the last zero_grad, each
  \* <<phase, epoch, j>>), the number of optimizer steps applied to the
  \* parameters, and, for the current epoch, the windows scored and the
  \* gradient operations in program order.  phase tells the two calls of the
  \* script apart (1: line 590, 2: line 595).  nonfinite holds the first
  \* batch whose loss was not a finite number (inf or nan out of the rate
  \* model), if there has been one.
  n_iter, batch_size, update_batch, batch_per_update, grad_clip, steps,
  epoch, j, running_loss, losses, grad, n_steps, windows, events, phase,
  nonfinite

samplerData == <<T, L, c, t, log_likelihood, configs, times, i, config,
                 transition_rates, R, dt>>

samplerVars == <<pc, samplerData>>

learnerVars == <<self_configs, self_times, call, ret, value, cursor, acc, whole>>

trainerVars == <<n_iter, batch_size, update_batch, batch_per_update, grad_clip,
                 steps, epoch, j, running_loss, losses, grad, n_steps, windows,
                 events, phase, nonfinite>>

vars == <<samplerVars, learnerVars, trainerVars>>

\* ------------------------------------------------------------ helpers
Sites(l) == 1..l

Configs(l) == [Sites(l) -> {0, 1}]

\* Mutant of RollPlus: an open chain, site 0 has no left neighbour.
RollPlusOpen(cfg, k) == IF k = 1 THEN 0 ELSE cfg[k - 1]

\* np.roll(config, 1)[k] = config[k-1] and np.roll(config, -1)[k] = config[k+1],
\* both modulo the length.
RollPlus(cfg, k) == cfg[IF k = 1 THEN Len(cfg) ELSE k - 1]

RollMinus(cfg, k) == cfg[IF k = Len(cfg) THEN 1 ELSE k + 1]

RECURSIVE SumSeq(_)
SumSeq(s) == IF s = <<>> THEN 0 ELSE Head(s) + SumSeq(Tail(s))

\* Mutant of transition_rates_of: unconstrained flips, the neighbours are
\* not looked at.
transition_rates_free(cfg, cc) ==
  [k \in 1..Len(cfg) |-> cfg[k] * (CDen - cc) + (1 - cfg[k]) * cc]

\* transition_rates of transition_rates_and_R, times CDen.
transition_rates_of(cfg, cc) ==
  [k \in 1..Len(cfg) |->
     (cfg[k] * (CDen - cc) + (1 - cfg[k]) * cc) * (RollPlus(cfg, k) + RollMinus(cfg, k))]

\* R of transition_rates_and_R, times CDen.
R_of(cfg, cc) == SumSeq(transition_rates_of(cfg, cc))

\* int(T*L*c*1.5): the rows of the preallocated configs and times arrays.
Capacity(tt, l, cc) == (tt * l * cc * 3) \div (Res * CDen * 2)

\* Mutant of DtDraws: a finite draw also for R = 0 (a scale clamped to stay
\* finite).
DtDrawsFinite(r, tt) == {[kind |-> "num", val |-> d] : d \in 0..tt}

\* np.random.exponential(scale = 1/R) is scale * e for a standard
\* exponential variate e >= 0, and e = 0 is a possible variate.  With R > 0
\* the draw is a number of ticks >= 0 (0 for e = 0).  With R = 0 the scale
\* 1/R is inf (numpy warns, it does not raise) and the draw is inf, or nan
\* for e = 0.
DtDraws(r, tt) ==
  IF r = 0 THEN {[kind |-> "inf", val |-> 0], [kind |-> "nan", val |-> 0]}
  ELSE {[kind |-> "num", val |-> d] : d \in 0..tt}

\* t + dt < T; a comparison with inf or nan on the left is False.
LoopCond(tt, d, bigT) == d.kind = "num" /\ tt + d.val < bigT

\* Mutant of FlipChoices: a uniform choice among all sites.
FlipChoicesAny(rates) == 1..Len(rates)

\* np.random.choice(L, 1, p = transition_rates/R): the cumulative-sum search
\* never lands on a site of probability 0.
FlipChoices(rates) == {k \in 1..Len(rates) : rates[k] > 0}

\* Mutant of Flip: the site is set to 1, not flipped.
FlipSet(cfg, flip_id) == [cfg EXCEPT ![flip_id] = 1]

\* Lines 71-72: the copy of cfg with site flip_id flipped.
Flip(cfg, flip_id) == [cfg EXCEPT ![flip_id] = 1 - cfg[flip_id]]

\* Mutant of Residual: the elapsed time is not subtracted.
ResidualWhole(bigT, tt) == bigT

\* Line 77: the residual time T - t.
Residual(bigT, tt) == bigT - tt

LLZero == [num |-> 1, den |-> 1, lin |-> 0]

\* ll + ln(w / CDen)
LLAddLog(ll, w) == [ll EXCEPT !.num = @ * w, !.den = @ * CDen]

\* ll - ticks * r / (CDen * Res)
LLSubLin(ll, x) == [ll EXCEPT !.lin = @ + x]

\* Equality of the numbers two records stand for.
LLEq(a, b) == a.num * b.den = b.num * a.den /\ a.lin = b.lin

ZeroRow(l) == [k \in Sites(l) |-> 0]

NoDt == [kind |-> "none", val |-> 0]

\* --------------------------------- log_likelihood_trajectory_batched
Min(a, b) == IF a < b THEN a ELSE b

\* The Python slice s[a:b] for 0 <= a and 0 <= b: it stops at the end of s.
PySlice(s, a, b) == SubSeq(s, a + 1, Min(b, Len(s)))

\* Rows of x - y for x of n rows and y of m rows (torch broadcasting along
\* dimension 0): equal sizes, or a size of 1 stretched to the other size
\* (also to 0); -1 is the RuntimeError for sizes that do not match.
BroadcastRows(n, m) ==
  IF n = m THEN n ELSE IF n = 1 THEN m ELSE IF m = 1 THEN n ELSE -1

\* torch.where(x - y) for x = cfgs[a0:a1] and y = cfgs[b0:b1]: the pairs
\* <<row, site>> at which the (broadcast) difference is not zero.
IdsFlipped(cfgs, a0, a1, b0, b1) ==
  LET x == PySlice(cfgs, a0, a1)
      y == PySlice(cfgs, b0, b1)
      r == BroadcastRows(Len(x), Len(y))
  IN  {<<q, k>> \in (1..r) \X (1..Len(cfgs[1])) :
         x[IF Len(x) = 1 THEN 1 ELSE q][k] # y[IF Len(y) = 1 THEN 1 ELSE q][k]}

NoTerms == [raised |-> FALSE, flips |-> EmptyBag, waits |-> EmptyBag]

Raised == [raised |-> TRUE, flips |-> EmptyBag, waits |-> EmptyBag]

\* Mutant of LLTerms: a non-final window looks only at the transitions
\* between its own configurations, not at the one out of its last.
LLTermsNoBoundary(cfgs, start, end, calc_last) ==
  LET n == Len(PySlice(cfgs, start, end)) IN
  IF n = 0 THEN Raised
  ELSE [raised |-> FALSE,
        flips |-> SetToBag({<<start + id[1], id[2]>> :
                     id \in IdsFlipped(cfgs, start, end - 1, start + 1, end)}),
        waits |-> IF calc_last
                  THEN SetToBag({<<start + q, start + q>> : q \in 1..(n - 1)})
                         (+) SetToBag({<<Len(cfgs), start + n>>})
                  ELSE SetToBag({<<start + q, start + q>> : q \in 1..n})]

\* Mutant of LLTerms: the final window leaves out the escape term of its
\* last configuration.
LLTermsNoResidual(cfgs, start, end, calc_last) ==
  LET n == Len(PySlice(cfgs, start, end)) IN
  IF ~calc_last
  THEN LET r == BroadcastRows(n, Len(PySlice(cfgs, start + 1, end + 1))) IN
       IF r = -1 THEN Raised
       ELSE [raised |-> FALSE,
             flips |-> SetToBag({<<start + id[1], id[2]>> :
                          id \in IdsFlipped(cfgs, start, end, start + 1, end + 1)}),
             waits |-> SetToBag({<<start + q, start + q>> : q \in 1..n})]
  ELSE IF n = 0 THEN Raised
       ELSE [raised |-> FALSE,
             flips |-> SetToBag({<<start + id[1], id[2]>> :
                          id \in IdsFlipped(cfgs, start, end - 1, start + 1, end)}),
             waits |-> SetToBag({<<start + q, start + q>> : q \in 1..(n - 1)})]

\* log_likelihood_trajectory_batched(start, end, calc_last) on a learner that
\* holds cfgs and as many times, for 0 <= start <= end <= Len(cfgs).  The
\* return is kept as the terms it sums, for any rate model and any times:
\* flips, the bag of <<j, k>> for which ln W of site k of configuration j
\* (an index into cfgs) is added, and waits, the bag of <<jt, jr>> for which
\* times[jt] * R of configuration jr is subtracted.  raised: the call ends
\* in an error (sizes that do not broadcast, or R[-1] of an empty window).
LLTerms(cfgs, start, end, calc_last) ==
  LET n == Len(PySlice(cfgs, start, end)) IN
  IF ~calc_last
  THEN LET r == BroadcastRows(n, Len(PySlice(cfgs, start + 1, end + 1))) IN
       IF r = -1 THEN Raised
       ELSE [raised |-> FALSE,
             flips |-> SetToBag({<<start + id[1], id[2]>> :
                          id \in IdsFlipped(cfgs, start, end, start + 1, end + 1)}),
             waits |-> SetToBag({<<start + q, start + q>> : q \in 1..n})]
  ELSE IF n = 0 THEN Raised
       ELSE [raised |-> FALSE,
             flips |-> SetToBag({<<start + id[1], id[2]>> :
                          id \in IdsFlipped(cfgs, start, end - 1, start + 1, end)}),
             waits |-> SetToBag({<<start + q, start + q>> : q \in 1..(n - 1)})
                         (+) SetToBag({<<Len(cfgs), start + n>>})]

\* a + b for two returns.
TermsAdd(a, b) ==
  [raised |-> a.raised \/ b.raised, flips |-> a.flips (+) b.flips,
   waits |-> a.waits (+) b.waits]

RECURSIVE LLAddFlips(_, _, _, _)
LLAddFlips(ll, todo, cfgs, cc) ==
  IF todo = {} THEN ll
  ELSE LET e == CHOOSE x \in todo : TRUE IN
       LLAddFlips(LLAddLog(ll, transition_rates_of(cfgs[e[1]], cc)[e[2]]),
                  todo \ {e}, cfgs, cc)

RECURSIVE LLSubWaits(_, _, _, _, _)
LLSubWaits(ll, todo, cfgs, tms, cc) ==
  IF todo = {} THEN ll
  ELSE LET e == CHOOSE x \in todo : TRUE IN
       LLSubWaits(LLSubLin(ll, tms[e[1]] * R_of(cfgs[e[2]], cc)),
                  todo \ {e}, cfgs, tms, cc)

\* The number a return stands for when the rate model gives the logarithms
\* of the exact rates (log_rates = ln transition_rates, so that
\* R = sum(exp(log_rates)) is the exact R) and the times are tms.  Every
\* term of a return of LLTerms occurs once.
LLValue(terms, cfgs, tms, cc) ==
  LLSubWaits(LLAddFlips(LLZero, BagToSet(terms.flips), cfgs, cc),
             BagToSet(terms.waits), cfgs, tms, cc)

NoCall == [start |-> 0, end |-> 0, calc_last |-> FALSE]

LearnerIdle ==
  /\ call = NoCall
  /\ ret = NoTerms
  /\ value = LLZero
  /\ cursor = 0
  /\ acc = NoTerms
  /\ whole = NoTerms

TrainerIdle ==
  /\ n_iter = 0
  /\ batch_size = 0
  /\ update_batch = FALSE
  /\ batch_per_update = 0
  /\ grad_clip = 0
  /\ steps = 0
  /\ epoch = 0
  /\ j = 0
  /\ running_loss = NoTerms
  /\ losses = <<>>
  /\ grad = {}
  /\ n_steps = 0
  /\ windows = <<>>
  /\ events = <<>>
  /\ phase = 0
  /\ nonfinite = {}

\* ------------------------------------------------ sample_FA_trajectory
\* The call sample_FA_trajectory(T, L, c) with its arguments bound.
SamplerInit ==
  /\ pc = "sample_start"
  /\ T \in 1..MaxT
  /\ L \in 1..MaxL
  /\ c \in 1..(CDen - 1)
  /\ Capacity(T, L, c) <= MaxRows
  /\ t = 0
  /\ log_likelihood = LLZero
  /\ configs = <<>>
  /\ times = <<>>
  /\ i = 0
  /\ config = <<>>
  /\ transition_rates = <<>>
  /\ R = 0
  /\ dt = NoDt
  /\ self_configs = <<>>
  /\ self_times = <<>>
  /\ LearnerIdle
  /\ TrainerIdle

\* Lines 47-60: allocate the storage, draw the initial configuration, store
\* it as entry 0 (IndexError when the storage has no row), draw the first dt.
SampleBegin ==
  /\ pc = "sample_start"
  /\ LET cap == Capacity(T, L, c) IN
     \E cfg \in Configs(L) :
       /\ config' = cfg
       /\ times' = [k \in 1..cap |-> 0]
       /\ IF cap = 0
          THEN /\ pc' = "IndexError"
               /\ configs' = <<>>
               /\ UNCHANGED <<transition_rates, R, dt>>
          ELSE /\ configs' = [[k \in 1..cap |-> ZeroRow(L)] EXCEPT ![1] = cfg]
               /\ transition_rates' = transition_rates_of(cfg, c)
               /\ R' = R_of(cfg, c)
               /\ \E d \in DtDraws(R_of(cfg, c), T) : dt' = d
               /\ pc' = "sample_loop"
  /\ UNCHANGED <<T, L, c, t, log_likelihood, i, learnerVars, trainerVars>>

\* Lines 62-75: one iteration of the while loop.
SampleStep ==
  /\ pc = "sample_loop"
  /\ LoopCond(t, dt, T)
  /\ \E flip_id \in FlipChoices(transition_rates) :
       LET cfg == Flip(config, flip_id) IN
       /\ times' = [times EXCEPT ![i + 1] = dt.val]
       /\ log_likelihood' =
            LLSubLin(LLAddLog(log_likelihood, transition_rates[flip_id]), dt.val * R)
       /\ t' = t + dt.val
       /\ i' = i + 1
       /\ config' = cfg
       /\ IF i + 1 >= Len(configs)
          THEN /\ pc' = "IndexError"
               /\ UNCHANGED <<configs, transition_rates, R, dt>>
          ELSE /\ configs' = [configs EXCEPT ![i + 2] = cfg]
               /\ transition_rates' = transition_rates_of(cfg, c)
               /\ R' = R_of(cfg, c)
               /\ \E d \in DtDraws(R_of(cfg, c), T) : dt' = d
               /\ pc' = "sample_loop"
  /\ UNCHANGED <<T, L, c, learnerVars, trainerVars>>

\* Lines 77-80: the residual time, its escape term, and the return of the
\* first i+1 rows.
SampleFinish ==
  /\ pc = "sample_loop"
  /\ ~LoopCond(t, dt, T)
  /\ times' = SubSeq([times EXCEPT ![i + 1] = Residual(T, t)], 1, i + 1)
  /\ configs' = SubSeq(configs, 1, i + 1)
  /\ log_likelihood' = LLSubLin(log_likelihood, R * Residual(T, t))
  /\ pc' = "sample_returned"
  /\ UNCHANGED <<T, L, c, t, i, config, transition_rates, R, dt, learnerVars, trainerVars>>

\* Lines 570-581 with a matched rate model: the sampled trajectory is handed
\* to DynamicsLearner and scored whole, as one final window, by a rate model
\* whose log-rates are the logarithms of the exact rates.
ScoreMatched ==
  /\ pc = "sample_returned"
  /\ self_configs' = configs
  /\ self_times' = times
  /\ call' = [start |-> 0, end |-> Len(configs), calc_last |-> TRUE]
  /\ ret' = LLTerms(configs, 0, Len(configs), TRUE)
  /\ value' = LLValue(LLTerms(configs, 0, Len(configs), TRUE), configs, times, c)
  /\ pc' = "matched_scored"
  /\ UNCHANGED samplerData
  /\ UNCHANGED <<cursor, acc, whole, trainerVars>>

SamplerNext == SampleBegin \/ SampleStep \/ SampleFinish \/ ScoreMatched

SamplerSpec == SamplerInit /\ [][SamplerNext]_vars

\* ------------------------------------------- claims on the sampler
Hamming(a, b) == Cardinality({k \in 1..Len(a) : a[k] # b[k]})

\* C2 (single-flip invariant): in the trajectory sample_FA_trajectory
\* returns, every configuration differs from the one before it in exactly
\* one site.
C2_SingleFlip ==
  pc = "sample_returned" =>
    \A k \in 1..(Len(configs) - 1) : Hamming(configs[k], configs[k + 1]) = 1

C2_Witness ==
  /\ pc = "sample_returned"
  /\ Len(configs) >= 3
  /\ L = MaxL

\* C3 (time-additivity): the returned configurations and holding times both
\* have K + 1 = i + 1 entries, the first K holding times are the waiting
\* times and sum to t < T, the last is the residual T - t, and all of them
\* sum to T.
C3_TimeAdditivity ==
  pc = "sample_returned" =>
    /\ Len(configs) = i + 1
    /\ Len(times) = i + 1
    /\ SumSeq(SubSeq(times, 1, i)) = t
    /\ t < T
    /\ times[i + 1] = T - t
    /\ SumSeq(times) = T

C3_Witness ==
  /\ pc = "sample_returned"
  /\ i >= 2
  /\ times[i + 1] > 1

\* C4 (exactness under the matched model): the log-likelihood the sampler
\* accumulated step by step is the number that scoring the returned
\* trajectory as one final window gives under the logarithms of the exact
\* rates: the sum over the K flips of ln(rate of the flipped site) -
\* times[k] * R_k, minus times[K] * R_K.
C4_Exactness ==
  pc = "matched_scored" =>
    /\ ~ret.raised
    /\ LLEq(value, log_likelihood)

C4_Witness ==
  /\ pc = "matched_scored"
  /\ i >= 2
  /\ log_likelihood.num > 1
  /\ log_likelihood.lin > 0

\* C5 (frozen configuration): whenever the escape rate of the current
\* configuration is 0, at the start or after a flip, the loop takes no
\* further step; the sampler returns (it raises nothing) the i + 1 entries
\* recorded so far with the final holding time T - t and the log-likelihood
\* unchanged; a frozen initial configuration gives one entry, holding time
\* T and log-likelihood 0.
C5_Frozen ==
  /\ [](pc = "sample_loop" /\ R = 0 => ~LoopCond(t, dt, T))
  /\ [][pc = "sample_loop" /\ R = 0 =>
          /\ pc' = "sample_returned"
          /\ Len(configs') = i + 1
          /\ Len(times') = i + 1
          /\ times'[i + 1] = T - t
          /\ LLEq(log_likelihood', log_likelihood)]_vars
  /\ [](pc = "sample_returned" /\ R = 0 /\ i = 0 =>
          /\ Len(configs) = 1
          /\ times = <<T>>
          /\ LLEq(log_likelihood, LLZero))

C5_Witness ==
  /\ pc = "sample_returned"
  /\ R = 0
  /\ i >= 1

\* C15 (exact rate rule): on a ring of L >= 3 sites the rates the sampler
\* holds for its current configuration are, for every site k with
\* neighbours k - 1 and k + 1 modulo L: 0 when both neighbours are 0; c
\* (site 0) or 1 - c (site 1) when exactly one neighbour is 1; 2c or
\* 2(1 - c) when both are 1; and R is the sum of the L site rates.  Rates
\* are times CDen.
C15_RateRule ==
  (pc \in {"sample_loop", "sample_returned"} /\ L >= 3) =>
    /\ Len(transition_rates) = L
    /\ \A k \in 1..L :
         LET up == config[((k + L - 2) % L) + 1] + config[(k % L) + 1]
             w  == IF config[k] = 0 THEN c ELSE CDen - c
         IN  transition_rates[k] =
               (IF up = 0 THEN 0 ELSE IF up = 1 THEN w ELSE 2 * w)
    /\ R = SumSeq(transition_rates)

C15_Witness ==
  /\ pc = "sample_loop"
  /\ L >= 3
  /\ i >= 1
  /\ c = 1
  /\ config[1] = 1 /\ config[2] = 0 /\ config[L] = 0
  /\ transition_rates[1] = 0
  /\ transition_rates[L] = c

\* C17 (frozen state is unreachable for L >= 2): on L >= 2 sites, when the
\* initial configuration has a positive escape rate, every configuration
\* the sampler reaches by its flips has a positive escape rate and is not
\* the all-zero configuration; so an escape rate of 0 is met only at the
\* initial configuration, before any flip.
C17_FrozenUnreachable ==
  (L >= 2 /\ pc \in {"sample_loop", "sample_returned", "IndexError"}
          /\ Len(configs) >= 1) =>
    /\ R_of(configs[1], c) > 0 =>
         /\ config # ZeroRow(L)
         /\ R_of(config, c) > 0
         /\ pc # "IndexError" =>
              /\ R > 0
              /\ \A k \in 1..(i + 1) :
                   configs[k] # ZeroRow(L) /\ R_of(configs[k], c) > 0
    /\ (pc # "IndexError" /\ R = 0) => (i = 0 /\ config = ZeroRow(L))

C17_Witness ==
  /\ pc = "sample_loop"
  /\ L = 2
  /\ i >= 2
  /\ config = <<0, 1>>
  /\ configs[1] = <<1, 0>>

\* C19 (flipped sites have positive rate): in every step of the sampler the
\* site that is flipped has a positive rate in the configuration it is
\* flipped in, and at least one of its two neighbours is 1 there; the same
\* holds along the stored trajectory; and the log-likelihood never takes
\* in ln 0 (its num stays positive).
C19_FlippedPositive ==
  /\ [][(pc = "sample_loop" /\ i' = i + 1) =>
          \A k \in 1..L :
            config'[k] # config[k] =>
              /\ transition_rates[k] > 0
              /\ config[((k + L - 2) % L) + 1] + config[(k % L) + 1] > 0]_vars
  /\ [](pc \in {"sample_loop", "sample_returned"} =>
          \A q \in 1..i : \A k \in 1..L :
            configs[q + 1][k] # configs[q][k] =>
              /\ transition_rates_of(configs[q], c)[k] > 0
              /\ configs[q][((k + L - 2) % L) + 1] + configs[q][(k % L) + 1] > 0)
  /\ [](log_likelihood.num > 0)

C19_Witness ==
  /\ pc = "sample_loop"
  /\ L = 3
  /\ i >= 2
  /\ configs[i] = <<1, 0, 0>>
  /\ transition_rates_of(configs[i], c)[1] = 0
  /\ log_likelihood.num > 1

\* C6 (no capacity failure), as claimed: the sampler never writes outside
\* its trajectory storage.
C6_NoCapacityFailure == pc # "IndexError"

\* ------------------------------------------------------ DynamicsLearner
\* __init__ (lines 179-190) with any trajectory: the configurations need not
\* come from the sampler, and there is one holding time (of one tick) for
\* each.  The log-likelihood is kept as the terms it sums (see LLTerms), so
\* the rate model stays symbolic.
EngineInit ==
  /\ pc = "engine_idle"
  /\ \E l \in 1..MaxEL, n \in 1..MaxN :
       /\ L = l
       /\ self_configs \in [1..n -> Configs(l)]
       /\ self_times = [k \in 1..n |-> 1]
  /\ LearnerIdle
  /\ TrainerIdle
  /\ T = 0 /\ c = 0 /\ t = 0 /\ log_likelihood = LLZero
  /\ configs = <<>> /\ times = <<>> /\ i = 0 /\ config = <<>>
  /\ transition_rates = <<>> /\ R = 0 /\ dt = NoDt

\* One call log_likelihood_trajectory_batched(start, end, calc_last) on a
\* non-empty window inside the trajectory.
ScoreWindow ==
  /\ pc = "engine_idle"
  /\ \E start \in 0..(Len(self_configs) - 1), end \in 1..Len(self_configs),
        calc_last \in BOOLEAN :
       /\ start < end
       /\ call' = [start |-> start, end |-> end, calc_last |-> calc_last]
       /\ ret' = LLTerms(self_configs, start, end, calc_last)
  /\ pc' = "window_scored"
  /\ UNCHANGED <<samplerData, self_configs, self_times, value,
                 cursor, acc, whole, trainerVars>>

\* The next call of a run over consecutive windows that partition the
\* trajectory: the window starts where the last one ended, is not empty, and
\* is scored as final exactly when it ends at the end of the trajectory.
ScorePart ==
  /\ pc \in {"engine_idle", "partition"}
  /\ \E end \in (cursor + 1)..Len(self_configs) :
       LET calc_last == (end = Len(self_configs))
           r == LLTerms(self_configs, cursor, end, calc_last)
       IN  /\ call' = [start |-> cursor, end |-> end, calc_last |-> calc_last]
           /\ ret' = r
           /\ acc' = TermsAdd(acc, r)
           /\ cursor' = end
           /\ pc' = IF end = Len(self_configs) THEN "partition_done" ELSE "partition"
  /\ UNCHANGED <<samplerData, self_configs, self_times, value, whole,
                 trainerVars>>

\* The whole trajectory as a single final window.
ScoreWhole ==
  /\ pc = "partition_done"
  /\ whole' = LLTerms(self_configs, 0, Len(self_configs), TRUE)
  /\ pc' = "partition_compared"
  /\ UNCHANGED <<samplerData, self_configs, self_times, call, ret,
                 value, cursor, acc, trainerVars>>

EngineNext == ScoreWindow \/ ScorePart \/ ScoreWhole

EngineSpec == EngineInit /\ [][EngineNext]_vars

\* -------------------------------- claims on the log-likelihood engine
\* C1 (batch additivity): when consecutive, non-empty windows that partition
\* the trajectory have been scored, all but the last as non-final and the
\* last as final, no call has raised and the sum of the returns has exactly
\* the terms of the return for the whole trajectory scored as one final
\* window: the same ln W terms and the same times * R terms, hence the same
\* number under every rate model and all holding times.
C1_BatchAdditivity ==
  pc = "partition_compared" =>
    /\ ~acc.raised
    /\ ~whole.raised
    /\ acc.flips = whole.flips
    /\ acc.waits = whole.waits

C1_Witness ==
  /\ pc = "partition_compared"
  /\ Len(self_configs) = MaxN
  /\ 0 < call.start
  /\ call.start + 1 < call.end
  /\ BagCardinality(whole.flips) >= 2

\* The configurations j of a window whose transition to j + 1 the window
\* scores: all of a non-final window, all but the last of a final window.
ScoredSteps(w) ==
  {q \in (w.start + 1)..(IF w.calc_last THEN w.end - 1 ELSE w.end) :
     q + 1 <= Len(self_configs)}

\* C10 (malformed transition is a hard error), as claimed: scoring a window
\* one of whose scored transitions changes no site or more than one site
\* ends in an error.
C10_MalformedRaises ==
  pc = "window_scored" =>
    ((\E q \in ScoredSteps(call) :
        Hamming(self_configs[q], self_configs[q + 1]) # 1) => ret.raised)

\* C13 (final-window residual term), as claimed: a window [start, end)
\* scored as final subtracts, for its last configuration (index end - 1),
\* its escape rate times the holding time of that same configuration, once,
\* and adds no ln W of it; also when end is before the end of the
\* trajectory.
C13_FinalResidual ==
  (pc = "window_scored" /\ call.calc_last /\ ~ret.raised) =>
    /\ \A e \in BagToSet(ret.waits) : e[2] = call.end => e[1] = call.end
    /\ CopiesIn(<<call.end, call.end>>, ret.waits) = 1
    /\ \A e \in BagToSet(ret.flips) : e[1] # call.end

\* -------------------------------------------------------- train_batched
\* A trajectory of n entries as the sampler produces them on two sites:
\* site 2 flips at every step next to the up spin of site 1.
TrainTrajectory(n) == [k \in 1..n |-> IF k % 2 = 1 THEN <<1, 1>> ELSE <<1, 0>>]

\* grad_clip of the script (line 589), and 0 for no clipping.
GradClips == {0, 100}

\* The learner of line 581 holding a trajectory of 1..MaxTrainN entries,
\* before the first call of train_batched.
TrainerInit ==
  /\ pc = "train_idle"
  /\ \E n \in 1..MaxTrainN :
       /\ self_configs = TrainTrajectory(n)
       /\ self_times = [k \in 1..n |-> 1]
  /\ L = 2
  /\ LearnerIdle
  /\ TrainerIdle
  /\ T = 0 /\ c = 0 /\ t = 0 /\ log_likelihood = LLZero
  /\ configs = <<>> /\ times = <<>> /\ i = 0 /\ config = <<>>
  /\ transition_rates = <<>> /\ R = 0 /\ dt = NoDt

\* Line 224.
StepsOf(n, bs) == IF bs < n THEN n \div bs + 1 ELSE 1

\* Lines 218-224 for the arguments given.
EnterTrain(ph, ni, bs, ub, bpu, gc) ==
  /\ phase' = ph
  /\ n_iter' = ni
  /\ batch_size' = bs
  /\ update_batch' = ub
  /\ batch_per_update' = bpu
  /\ grad_clip' = gc
  /\ losses' = [k \in 1..ni |-> NoTerms]
  /\ steps' = StepsOf(Len(self_times), bs)
  /\ epoch' = 0
  /\ pc' = "train_epoch"
  /\ UNCHANGED <<samplerData, learnerVars>>

\* The first call of the script (line 590), with any arguments.
TrainBegin ==
  /\ pc = "train_idle"
  /\ \E ni \in 1..MaxIter, bs \in 1..MaxBatch, gc \in GradClips :
       \/ \E bpu \in 1..MaxPerUpdate : EnterTrain(1, ni, bs, TRUE, bpu, gc)
       \/ EnterTrain(1, ni, bs, FALSE, 0, gc)
  /\ UNCHANGED <<j, running_loss, grad, n_steps, windows, events, nonfinite>>

\* The second call of the script (line 595) on the same learner, with the
\* batch_size and grad_clip of the first.
TrainAgain ==
  /\ pc = "train_returned"
  /\ phase = 1
  /\ \E ni \in 1..MaxIter :
       \/ \E bpu \in 1..MaxPerUpdate :
            EnterTrain(2, ni, batch_size, TRUE, bpu, grad_clip)
       \/ EnterTrain(2, ni, batch_size, FALSE, 0, grad_clip)
  /\ UNCHANGED <<j, running_loss, grad, n_steps, windows, events, nonfinite>>

\* Lines 226-230: the next epoch starts.
EpochBegin ==
  /\ pc = "train_epoch"
  /\ epoch < n_iter
  /\ running_loss' = NoTerms
  /\ j' = 0
  /\ windows' = <<>>
  /\ events' = <<>>
  /\ pc' = "train_batch"
  /\ UNCHANGED <<samplerData, learnerVars, n_iter, batch_size, update_batch,
                 batch_per_update, grad_clip, steps, epoch, losses, grad,
                 n_steps, phase, nonfinite>>

\* Mutant of UpdateEvents: the gradient is clipped after the step.
UpdateEventsStepFirst(g, gc) ==
  <<[op |-> "step", grads |-> g]>>
    \o (IF gc # 0 THEN <<[op |-> "clip", grads |-> g]>> ELSE <<>>)
    \o <<[op |-> "zero_grad", grads |-> g]>>

\* Lines 245-248 and 256-259: clip when grad_clip is not 0, step, zero_grad,
\* on the accumulated gradient g.
UpdateEvents(g, gc) ==
  (IF gc # 0 THEN <<[op |-> "clip", grads |-> g]>> ELSE <<>>)
    \o <<[op |-> "step", grads |-> g], [op |-> "zero_grad", grads |-> g]>>

\* Mutant of UpdatesAfter: the first batch of an epoch is always followed
\* by an update.
UpdatesAfterFirst(ub, bpu, jj) == jj = 0 \/ (ub /\ jj % bpu = 0)

\* Mutant of UpdatesAfter: the update_batch flag is not looked at.
UpdatesAfterAlways(ub, bpu, jj) == jj % (IF bpu = 0 THEN 1 ELSE bpu) = 0

\* Line 242.
UpdatesAfter(ub, bpu, jj) == ub /\ jj % bpu = 0

\* Lines 234-237: the window of batch jj.
WindowOf(jj, st, bs, n) ==
  IF jj < st - 1
  THEN [start |-> jj * bs, end |-> (jj + 1) * bs, calc_last |-> FALSE]
  ELSE [start |-> jj * bs, end |-> n, calc_last |-> TRUE]

\* Lines 230-251: one iteration of the batch loop.  The call of
\* log_likelihood_trajectory_batched may raise, which ends train_batched.
\* The loss it returns is a finite number or not (finite), as the rate
\* model's log-rates are; nothing in the loop looks at that.
Batch ==
  /\ pc = "train_batch"
  /\ j < steps
  /\ \E finite \in BOOLEAN :
     LET w == WindowOf(j, steps, batch_size, Len(self_times))
         r == LLTerms(self_configs, w.start, w.end, w.calc_last)
         g == grad \cup {<<phase, epoch, j>>}
         upd == UpdatesAfter(update_batch, batch_per_update, j)
     IN  /\ call' = w
         /\ ret' = r
         /\ windows' = Append(windows, w @@ [params |-> n_steps])
         /\ IF r.raised
            THEN /\ pc' = "train_error"
                 /\ UNCHANGED <<j, running_loss, grad, n_steps, events, nonfinite>>
            ELSE /\ events' = events \o <<[op |-> "backward", grads |-> g]>>
                               \o (IF upd THEN UpdateEvents(g, grad_clip) ELSE <<>>)
                 /\ grad' = IF upd THEN {} ELSE g
                 /\ n_steps' = IF upd THEN n_steps + 1 ELSE n_steps
                 /\ running_loss' = TermsAdd(running_loss, r)
                 /\ nonfinite' = IF ~finite /\ nonfinite = {}
                                 THEN {<<phase, epoch, j>>} ELSE nonfinite
                 /\ j' = j + 1
                 /\ pc' = "train_batch"
  /\ UNCHANGED <<samplerData, self_configs, self_times, value, cursor, acc, whole,
                 n_iter, batch_size, update_batch, batch_per_update, grad_clip,
                 steps, epoch, losses, phase>>

\* Lines 254-266: the end of an epoch.
EpochEnd ==
  /\ pc = "train_batch"
  /\ j = steps
  /\ IF ~update_batch
     THEN /\ events' = events \o UpdateEvents(grad, grad_clip)
          /\ grad' = {}
          /\ n_steps' = n_steps + 1
     ELSE UNCHANGED <<events, grad, n_steps>>
  /\ losses' = [losses EXCEPT ![epoch + 1] = running_loss]
  /\ epoch' = epoch + 1
  /\ pc' = "train_epoch"
  /\ UNCHANGED <<samplerData, learnerVars, n_iter, batch_size, update_batch,
                 batch_per_update, grad_clip, steps, j, running_loss, windows,
                 phase, nonfinite>>

\* Mutant of TrainReturn: the call returns as soon as one epoch is done.
TrainReturnEarly ==
  /\ pc = "train_epoch"
  /\ epoch >= 1
  /\ pc' = IF phase = 1 THEN "train_returned" ELSE "train_done"
  /\ UNCHANGED <<samplerData, learnerVars, trainerVars>>

\* Line 267.
TrainReturn ==
  /\ pc = "train_epoch"
  /\ epoch = n_iter
  /\ pc' = IF phase = 1 THEN "train_returned" ELSE "train_done"
  /\ UNCHANGED <<samplerData, learnerVars, trainerVars>>

TrainerNext ==
  TrainBegin \/ TrainAgain \/ EpochBegin \/ Batch \/ EpochEnd \/ TrainReturn

TrainerSpec == TrainerInit /\ [][TrainerNext]_vars

\* The script runs on: a statement that can be executed is executed.
TrainerLive == TrainerSpec /\ WF_vars(TrainerNext)

\* ------------------------------------------------------ the whole model
\* A run is one of: a call of the sampler followed by the scoring of its
\* trajectory under the exact rates; calls of the log-likelihood on a
\* learner that holds any trajectory; the two training calls of the script.
Init == SamplerInit \/ EngineInit \/ TrainerInit

Next == SamplerNext \/ EngineNext \/ TrainerNext

Spec == Init /\ [][Next]_vars

\* ------------------------------------------- claims on train_batched
\* The windows of the batch loop of an epoch, in the order of its calls:
\* lines 230-237 for j = 0 .. steps-1.
EpochWindows ==
  [k \in 1..steps |-> WindowOf(k - 1, steps, batch_size, Len(self_times))]

\* The windows of ws that hold configuration q (0-based).
Covering(ws, q) == {k \in 1..Len(ws) : ws[k].start <= q /\ q < ws[k].end}

\* C7 (batch partition in training), as claimed: the windows an epoch
\* scores start at configuration 0, each starts where the one before ended,
\* none reaches past N and no configuration lies in two of them; the window
\* that ends at N, and no other, is scored as final, and it holds the
\* remainder, the last configurations of the trajectory; an epoch that is
\* done has covered every configuration 0..N-1 once, its last window being
\* the final one.
C7_BatchPartition ==
  LET N == Len(self_times) IN
  phase >= 1 =>
    /\ \A k \in 1..Len(windows) :
         /\ windows[k].start = (IF k = 1 THEN 0 ELSE windows[k - 1].end)
         /\ windows[k].end <= N
         /\ windows[k].calc_last <=> (windows[k].end = N)
         /\ windows[k].calc_last => windows[k].start < N
    /\ \A q \in 0..(N - 1) : Cardinality(Covering(windows, q)) <= 1
    /\ (pc = "train_epoch" /\ epoch >= 1) =>
         /\ \A q \in 0..(N - 1) : Cardinality(Covering(windows, q)) = 1
         /\ windows[Len(windows)].calc_last

\* The events of the current epoch belong to the current call.
EventsCurrent ==
  \/ pc \in {"train_batch", "train_error", "train_returned", "train_done"}
  \/ pc = "train_epoch" /\ epoch >= 1

StepEvents == {k \in 1..Len(events) : events[k].op = "step"}

BackwardsBefore(k) == {m \in 1..(k - 1) : events[m].op = "backward"}

\* C8 (accumulate-mode update schedule), as claimed: with update_batch True
\* every parameter update comes after a multiple of batch_per_update
\* batches of the epoch, uses the gradients of exactly batch_per_update
\* batches, and is followed at once by the reset of the gradient.
C8_AccumSchedule ==
  (update_batch /\ EventsCurrent) =>
    \A k \in StepEvents :
      /\ Cardinality(events[k].grads) = batch_per_update
      /\ Cardinality(BackwardsBefore(k)) % batch_per_update = 0
      /\ k < Len(events)
      /\ events[k + 1].op = "zero_grad"

\* C9 (full-epoch update schedule): with update_batch False there is no
\* parameter update while the batches of an epoch are processed, and a
\* completed epoch has applied exactly one, after the back-propagation of
\* all its batches and on a gradient that holds every batch of that epoch.
C9_FullEpoch ==
  (~update_batch /\ phase >= 1) =>
    /\ pc \in {"train_batch", "train_error"} => StepEvents = {}
    /\ (EventsCurrent /\ pc \notin {"train_batch", "train_error"}) =>
         /\ Cardinality(StepEvents) = 1
         /\ \A k \in StepEvents :
              /\ Cardinality(BackwardsBefore(k)) = steps
              /\ \A m \in (k + 1)..Len(events) : events[m].op # "backward"
              /\ {<<phase, epoch - 1, jj>> : jj \in 0..(steps - 1)}
                   \subseteq events[k].grads

C9_Witness ==
  /\ pc = "train_epoch"
  /\ ~update_batch
  /\ phase = 2
  /\ epoch = 2
  /\ steps >= 3

\* C11 (non-finite loss is fatal), as claimed: no parameter update uses a
\* gradient that includes a batch whose loss was not finite, and once a
\* batch has had such a loss train_batched is still at that batch: no later
\* batch has been scored, no epoch has ended, the call has not returned.
C11_NonFiniteFatal ==
  \A b \in nonfinite :
    /\ EventsCurrent => \A k \in StepEvents : b \notin events[k].grads
    /\ phase = b[1]
    /\ pc = "train_batch"
    /\ epoch = b[2]
    /\ j = b[3] + 1
    /\ Len(windows) = b[3] + 1

\* The sum of the returns of the first k windows of an epoch.
RECURSIVE BatchSum(_)
BatchSum(k) ==
  IF k = 0 THEN NoTerms
  ELSE LET w == EpochWindows[k] IN
       TermsAdd(BatchSum(k - 1), LLTerms(self_configs, w.start, w.end, w.calc_last))

\* C12 (training runs to completion): a call of train_batched in which no
\* scoring raises goes through exactly n_iter epochs and then returns; every
\* epoch it has gone through has scored each of its steps batches once, in
\* order; losses has n_iter entries, the i-th is the sum of the batch losses
\* of epoch i once that epoch is done and 0 before; the call returns only
\* when epoch = n_iter, whatever the losses have been.
C12_RunsToCompletion ==
  /\ [](phase >= 1 =>
          /\ epoch <= n_iter
          /\ Len(losses) = n_iter
          /\ \A k \in 1..n_iter :
               losses[k] = (IF k <= epoch THEN BatchSum(steps) ELSE NoTerms)
          /\ (pc = "train_epoch" /\ epoch >= 1) =>
               /\ Len(windows) = steps
               /\ \A k \in 1..steps :
                    /\ windows[k].start = EpochWindows[k].start
                    /\ windows[k].end = EpochWindows[k].end
               /\ ~BatchSum(steps).raised
          /\ pc \in {"train_returned", "train_done"} => epoch = n_iter)
  /\ \A ph \in 1..2 :
       (phase = ph /\ pc = "train_epoch" /\ epoch = 0)
         ~> (phase = ph /\ pc \in {"train_returned", "train_done", "train_error"})
  /\ [][pc = "train_epoch" /\ epoch < n_iter => pc' = "train_batch"]_vars

C12_Witness ==
  /\ pc = "train_done"
  /\ n_iter = MaxIter
  /\ steps >= 3
  /\ BagCardinality(losses[n_iter].flips) >= 3
  /\ nonfinite = {}

\* C14 (well-formed windows in training), as claimed: every window
\* train_batched hands to log_likelihood_trajectory_batched holds at least
\* one configuration, and a window scored as non-final ends at N - 1 or
\* before, so that its last configuration has a successor.
C14_WellFormedWindows ==
  phase >= 1 =>
    \A k \in 1..Len(windows) :
      /\ windows[k].start < windows[k].end
      /\ ~windows[k].calc_last => windows[k].end <= Len(self_times) - 1

\* C16 (clip, update, reset ordering): in both update regimes, the
\* operation right before a parameter update is the clipping of the
\* gradient norm exactly when grad_clip is not 0, and it clips the gradient
\* the update then uses; clipping occurs nowhere else; the operation right
\* after an update is the reset of that gradient, so a back-propagation
\* that follows starts from an empty gradient and holds its own batch only.
C16_ClipStepReset ==
  EventsCurrent =>
    /\ \A k \in StepEvents :
         /\ (grad_clip # 0) <=> (k > 1 /\ events[k - 1].op = "clip")
         /\ grad_clip # 0 => events[k - 1].grads = events[k].grads
         /\ k < Len(events)
         /\ events[k + 1].op = "zero_grad"
         /\ events[k + 1].grads = events[k].grads
         /\ k + 2 <= Len(events) =>
              /\ events[k + 2].op = "backward"
              /\ Cardinality(events[k + 2].grads) = 1
    /\ \A k \in 1..Len(events) :
         /\ events[k].op = "clip" => (k < Len(events) /\ events[k + 1].op = "step")
         /\ events[k].op = "zero_grad" => (k > 1 /\ events[k - 1].op = "step")
    /\ (events # <<>> /\ events[Len(events)].op = "zero_grad") => grad = {}

C16_Witness ==
  /\ pc = "train_batch"
  /\ update_batch
  /\ grad_clip # 0
  /\ batch_per_update = 2
  /\ Cardinality(StepEvents) >= 2
  /\ events[Len(events)].op = "backward"

\* The epoch (0-based i of line 226) the current events belong to.
EventsEpoch == IF pc \in {"train_batch", "train_error"} THEN epoch ELSE epoch - 1

\* C18 (no gradient carry-over), as claimed: the accumulated gradient is
\* empty when an epoch starts and when train_batched has returned, and a
\* parameter update uses gradients of batches of its own epoch and call
\* only.
C18_NoCarryOver ==
  /\ (pc = "train_batch" /\ j = 0) => grad = {}
  /\ pc \in {"train_returned", "train_done"} => grad = {}
  /\ EventsCurrent =>
       \A k \in StepEvents :
         \A b \in events[k].grads : b[1] = phase /\ b[2] = EventsEpoch

\* C20 (parameters are fixed within a full-epoch pass): with update_batch
\* False no iteration of the batch loop changes the parameters, and all the
\* windows of an epoch, from the first to the last, are scored under the
\* same parameters (the same number of optimizer steps applied).
C20_ParamsFixed ==
  /\ [][(~update_batch /\ pc = "train_batch" /\ pc' # "train_epoch") =>
          n_steps' = n_steps]_vars
  /\ []((~update_batch /\ EventsCurrent) =>
          /\ \A k \in 1..Len(windows) : windows[k].params = windows[1].params
          /\ pc \in {"train_batch", "train_error"} =>
               \A k \in 1..Len(windows) : windows[k].params = n_steps)

C20_Witness ==
  /\ pc = "train_epoch"
  /\ ~update_batch
  /\ epoch = 2
  /\ Len(windows) >= 3
  /\ windows[1].params >= 1
  /\ windows[Len(windows)].calc_last
  /\ n_steps = windows[1].params + 1

====
